---- MODULE Spec2Model ----
(***************************************************************************)
(* The chunked, resumable BASE64 encoder of cpp-netlib                     *)
(* (boost/network/utils/base64/encode.hpp): the encoding state, the two    *)
(* alphabets, the padding policies, the line-break register, the stateful  *)
(* encode / encode_rest pair and the stateless one-shot encode.            *)
(*                                                                         *)
(* A caller owns one state<Value> (rest) and one output sink (out).  It    *)
(* feeds chunks through encode, finishes with encode_rest, may clear() the *)
(* state, and empties the sink (result.clear()) before the next session,   *)
(* as state_test does.  The one-shot encode works on a state of its own.   *)
(***************************************************************************)
EXTENDS Integers, Sequences, FiniteSets

\* ------------------------------------------------------------------ bounds

\* longest session input when the octets are chosen freely
MaxLen == 5
\* longest chunk handed to one stateful encode call
MaxChunk == 4
\* longest prefix of the test buffer of line_breaks_test fed to one session
MaxBufferLen == 100

\* ------------------------------------------------------- program constants

no_line_breaks == 0
max_mime_line_length == 76
max_pem_line_length == 64

\* width of unsigned short (state::line_length)
UShortModulus == 65536
\* the masks of encode are at most 0xff: of the promoted int only the low
\* eight bits take part
OctetModulus == 256

\* ------------------------------------------------------------- arithmetic

RECURSIVE BitAnd(_, _)
BitAnd(a, b) ==
    IF a = 0 \/ b = 0 THEN 0
    ELSE (a % 2) * (b % 2) + 2 * BitAnd(a \div 2, b \div 2)

RECURSIVE BitOr(_, _)
BitOr(a, b) ==
    IF a = 0 THEN b
    ELSE IF b = 0 THEN a
    ELSE (IF a % 2 = 1 \/ b % 2 = 1 THEN 1 ELSE 0)
         + 2 * BitOr(a \div 2, b \div 2)

RECURSIVE Pow2(_)
Pow2(k) == IF k = 0 THEN 1 ELSE 2 * Pow2(k - 1)

\* value & mask: the value is promoted to int (two's complement, so a
\* negative signed char keeps its low eight bits), the mask is a
\* non-negative literal of at most eight bits, the result is non-negative
MaskBits(value, mask) == BitAnd(value % OctetModulus, mask)

ShiftRight(value, k) == value \div Pow2(k)
ShiftLeft(value, k) == value * Pow2(k)

\* ------------------------------------------------------------ input values

\* *begin read into value_type: an octet seen through an iterator over char
\* (signed) is negative when its high bit is set
AsValue(octet, value_type) ==
    IF value_type = "char" /\ octet >= 128 THEN octet - 256 ELSE octet

ValueTypes == {"char", "unsigned char"}

\* the octets of the tests: 'a' (padding_test, state_test), 0xfb and 0xf0
\* (alphabet_test)
Octets == {97, 251, 240}

\* the 100-byte buffer of line_breaks_test, "0000000001" "1111111112" ...,
\* as octets; position i is 1-based
BufferOctet(i) ==
    LET block == ((i - 1) \div 10) % 10
        place == (i - 1) % 10
    IN  48 + (IF place < 9 THEN block ELSE (block + 1) % 10)

BufferSlice(from, n) == [i \in 1..n |-> BufferOctet(from + i)]

\* ------------------------------------------------------------------ state

\* state::state()
NewState == [triplet_index |-> 0, last_encoded_value |-> 0, line_length |-> 0]

\* as Empty, looking at the bits kept instead of the index
EmptyByValue(rest) == rest.last_encoded_value = 0

\* state::empty
Empty(rest) == rest.triplet_index = 0

\* as Clear, with the triplet index left as it was
ClearKeepingIndex(rest) ==
    [rest EXCEPT !.last_encoded_value = 0, !.line_length = 0]

\* as Clear, with the line length register left as it was
ClearKeepingLine(rest) ==
    [rest EXCEPT !.triplet_index = 0, !.last_encoded_value = 0]

\* state::clear
Clear(rest) ==
    [rest EXCEPT !.triplet_index = 0,
                 !.last_encoded_value = 0,
                 !.line_length = 0]

\* as Set, with the encoded value not stored
SetWithoutValue(index, value, length) ==
    [triplet_index |-> index, last_encoded_value |-> 0, line_length |-> length]

\* state::set
Set(index, value, length) ==
    [triplet_index |-> index, last_encoded_value |-> value, line_length |-> length]

\* -------------------------------------------------------------- alphabets

UpperCase == <<"A","B","C","D","E","F","G","H","I","J","K","L","M",
               "N","O","P","Q","R","S","T","U","V","W","X","Y","Z">>
LowerCase == <<"a","b","c","d","e","f","g","h","i","j","k","l","m",
               "n","o","p","q","r","s","t","u","v","w","x","y","z">>
Digits == <<"0","1","2","3","4","5","6","7","8","9">>

default_characters == UpperCase \o LowerCase \o Digits \o <<"+", "/">>
url_characters == UpperCase \o LowerCase \o Digits \o <<"-", "_">>

\* default_alphabet::translate: characters[static_cast<unsigned>(value)];
\* the table is indexed from 0 in the code and from 1 here
DefaultTranslate(value) == default_characters[value + 1]

\* as UrlTranslate, with the last two characters of the table exchanged
UrlTranslateExchanged(value) ==
    (UpperCase \o LowerCase \o Digits \o <<"_", "-">>)[value + 1]

\* url_and_filename_safe_alphabet::translate
UrlTranslate(value) == url_characters[value + 1]

\* alphabet::translate of the encoder's Alphabet parameter
Translate(alphabet, value) ==
    IF alphabet = "url_and_filename_safe_alphabet"
    THEN UrlTranslate(value)
    ELSE DefaultTranslate(value)

\* ---------------------------------------------------------------- padding

\* as PaddingAppendTo, with the test on the triplet index turned round
PaddingAppendToSwapped(rest) ==
    IF ~Empty(rest)
    THEN <<"=">> \o (IF rest.triplet_index >= 2 THEN <<"=">> ELSE <<>>)
    ELSE <<>>

\* padding::append_to
PaddingAppendTo(rest) ==
    IF ~Empty(rest)
    THEN <<"=">> \o (IF rest.triplet_index < 2 THEN <<"=">> ELSE <<>>)
    ELSE <<>>

\* as NoPaddingAppendTo, with the append_to of the base class padding
NoPaddingInherited(rest) == PaddingAppendTo(rest)

\* no_padding::append_to
NoPaddingAppendTo(rest) == <<>>

\* as AppendTo, with the pads written under both policies
AppendToAlwaysPadding(padding, rest) ==
    PaddingAppendTo(rest)

\* padding::append_to of the encoder's Padding parameter
AppendTo(padding, rest) ==
    IF padding = "no_padding" THEN NoPaddingAppendTo(rest)
    ELSE PaddingAppendTo(rest)

\* ------------------------------------------------------------ line breaks

\* as LineBreak, breaking only once the maximum is exceeded
LineBreakLate(line_length, max_line_length) ==
    IF max_line_length # 0
    THEN LET length == (line_length + 4) % UShortModulus
         IN  IF length > max_line_length
             THEN [output |-> <<"\n">>, line_length |-> 0]
             ELSE [output |-> <<>>, line_length |-> length]
    ELSE [output |-> <<>>, line_length |-> line_length]

\* as LineBreak, counting the line break as a symbol of the next line
LineBreakCounted(line_length, max_line_length) ==
    IF max_line_length # 0
    THEN LET length == (line_length + 4) % UShortModulus
         IN  IF length >= max_line_length
             THEN [output |-> <<"\n">>, line_length |-> 1]
             ELSE [output |-> <<>>, line_length |-> length]
    ELSE [output |-> <<>>, line_length |-> line_length]

\* as LineBreak, with the line length register not reset at a line break
LineBreakKeepingCount(line_length, max_line_length) ==
    IF max_line_length # 0
    THEN LET length == (line_length + 4) % UShortModulus
         IN  IF length >= max_line_length
             THEN [output |-> <<"\n">>, line_length |-> length]
             ELSE [output |-> <<>>, line_length |-> length]
    ELSE [output |-> <<>>, line_length |-> line_length]

\* as LineBreak, counting the symbols without a maximum line length too
LineBreakCountingAlways(line_length, max_line_length) ==
    LET length == (line_length + 4) % UShortModulus
    IN  IF max_line_length # 0 /\ length >= max_line_length
        THEN [output |-> <<"\n">>, line_length |-> 0]
        ELSE [output |-> <<>>, line_length |-> length]

\* as LineBreak, counting a quantum as three symbols
LineBreakShortCount(line_length, max_line_length) ==
    IF max_line_length # 0
    THEN LET length == (line_length + 3) % UShortModulus
         IN  IF length >= max_line_length
             THEN [output |-> <<"\n">>, line_length |-> 0]
             ELSE [output |-> <<>>, line_length |-> length]
    ELSE [output |-> <<>>, line_length |-> line_length]

\* the line-break block that follows the fourth symbol of a quantum: the
\* symbols it writes and the line length register it leaves
LineBreak(line_length, max_line_length) ==
    IF max_line_length # 0
    THEN LET length == (line_length + 4) % UShortModulus
         IN  IF length >= max_line_length
             THEN [output |-> <<"\n">>, line_length |-> 0]
             ELSE [output |-> <<>>, line_length |-> length]
    ELSE [output |-> <<>>, line_length |-> line_length]

\* ---------------------------------------------------------------- encoder

\* the 6-bit code units of one octet, by its place in the quantum
\* as FirstSextet, shifting the value without the mask
FirstSextetUnmasked(current_value) == ShiftRight(current_value, 2)
FirstSextet(current_value) == ShiftRight(MaskBits(current_value, 252), 2)
\* as FirstRest, with the mask two bits to the left
FirstRestWrongMask(current_value) ==
    ShiftLeft(ShiftRight(MaskBits(current_value, 12), 2), 4)
FirstRest(current_value) == ShiftLeft(MaskBits(current_value, 3), 4)
SecondSextet(encoded_value, current_value) ==
    BitOr(encoded_value, ShiftRight(MaskBits(current_value, 240), 4))
\* as SecondRest, shifted by one bit only
SecondRestShortShift(current_value) ==
    ShiftLeft(MaskBits(current_value, 15), 1)
SecondRest(current_value) == ShiftLeft(MaskBits(current_value, 15), 2)
ThirdSextet(encoded_value, current_value) ==
    BitOr(encoded_value, ShiftRight(MaskBits(current_value, 192), 6))
\* as FourthSextet, with a mask one bit short
FourthSextetShortMask(current_value) == MaskBits(current_value, 31)
FourthSextet(current_value) == MaskBits(current_value, 63)

\* as EncodeStep, with the line-break block placed before the last symbol
\* of the quantum is written
EncodeStepBreakingEarly(enc, at, current_value) ==
    CASE at.label = 0 ->
           [label |-> 1,
            encoded_value |-> FirstRest(current_value),
            line_length |-> at.line_length,
            output |-> Append(at.output,
                Translate(enc.alphabet, FirstSextet(current_value)))]
      [] at.label = 1 ->
           [label |-> 2,
            encoded_value |-> SecondRest(current_value),
            line_length |-> at.line_length,
            output |-> Append(at.output,
                Translate(enc.alphabet,
                    SecondSextet(at.encoded_value, current_value)))]
      [] OTHER ->
           LET break == LineBreak(at.line_length, enc.max_line_length)
           IN  [label |-> 0,
                encoded_value |-> FourthSextet(current_value),
                line_length |-> break.line_length,
                output |-> at.output
                    \o <<Translate(enc.alphabet,
                             ThirdSextet(at.encoded_value, current_value))>>
                    \o break.output
                    \o <<Translate(enc.alphabet, FourthSextet(current_value))>>]

\* One pass from a case label of the switch to the next, reading one input
\* value: at is where the encode stands (the case entered, encoded_value,
\* line_length and the output written so far).
EncodeStep(enc, at, current_value) ==
    CASE at.label = 0 ->
           [label |-> 1,
            encoded_value |-> FirstRest(current_value),
            line_length |-> at.line_length,
            output |-> Append(at.output,
                Translate(enc.alphabet, FirstSextet(current_value)))]
      [] at.label = 1 ->
           [label |-> 2,
            encoded_value |-> SecondRest(current_value),
            line_length |-> at.line_length,
            output |-> Append(at.output,
                Translate(enc.alphabet,
                    SecondSextet(at.encoded_value, current_value)))]
      [] OTHER ->
           LET break == LineBreak(at.line_length, enc.max_line_length)
           IN  [label |-> 0,
                encoded_value |-> FourthSextet(current_value),
                line_length |-> break.line_length,
                output |-> at.output
                    \o <<Translate(enc.alphabet,
                             ThirdSextet(at.encoded_value, current_value)),
                         Translate(enc.alphabet, FourthSextet(current_value))>>
                    \o break.output]

\* EncodeStep over values[from..to] in the order of the loop.  The range is
\* halved, and the first half is looked at before the second is entered, so
\* that the evaluation stays shallow on long inputs; label is always one of
\* 0, 1, 2, so the test changes nothing.
RECURSIVE EncodeSteps(_, _, _, _, _)
EncodeSteps(enc, at, values, from, to) ==
    IF from > to THEN at
    ELSE IF from = to THEN EncodeStep(enc, at, values[from])
    ELSE LET middle == (from + to) \div 2
             half == EncodeSteps(enc, at, values, from, middle)
         IN  IF half.label \in {0, 1, 2}
             THEN EncodeSteps(enc, half, values, middle + 1, to)
             ELSE half

\* as EncodeBegin, with the line length register not resumed
EncodeBeginForgettingLine(rest) ==
    [label |-> rest.triplet_index,
     encoded_value |-> rest.last_encoded_value,
     line_length |-> 0,
     output |-> <<>>]

\* as EncodeBegin, with the bits left by the previous chunk not resumed
EncodeBeginWithoutValue(rest) ==
    [label |-> rest.triplet_index,
     encoded_value |-> 0,
     line_length |-> rest.line_length,
     output |-> <<>>]

\* entering the switch: encoded_value and line_length are read from the
\* state and the case is chosen by rest.triplet_index
EncodeBegin(rest) ==
    [label |-> rest.triplet_index,
     encoded_value |-> rest.last_encoded_value,
     line_length |-> rest.line_length,
     output |-> <<>>]

\* as EncodeEnd, with the register stored as it is in case 0 too
EncodeEndKeepingValue(at) ==
    Set(at.label, at.encoded_value, at.line_length)

\* leaving the switch at begin == end: rest.set(index, value, line_length),
\* the value being 0 in case 0
EncodeEnd(at) ==
    Set(at.label, IF at.label = 0 THEN 0 ELSE at.encoded_value, at.line_length)

\* as Encode, with the symbol of an incomplete quantum written right away
EncodeFlushing(enc, values, rest) ==
    LET at == EncodeSteps(enc, EncodeBegin(rest), values, 1, Len(values))
    IN  [output |-> at.output
                    \o (IF at.label = 0 THEN <<>>
                        ELSE <<Translate(enc.alphabet, at.encoded_value)>>),
         rest |-> EncodeEnd(at)]

\* as Encode, with a line break withheld when no input follows the quantum
\* that fills the line
EncodeLookingAhead(enc, values, rest) ==
    LET at == EncodeSteps(enc, EncodeBegin(rest), values, 1, Len(values))
        n == Len(at.output)
    IN  [output |-> IF n > 0 /\ at.label = 0 /\ at.output[n] = "\n"
                    THEN SubSeq(at.output, 1, n - 1)
                    ELSE at.output,
         rest |-> EncodeEnd(at)]

\* encoder::encode(begin, end, output, rest): what it appends to the output
\* and the state it leaves
Encode(enc, values, rest) ==
    LET at == EncodeSteps(enc, EncodeBegin(rest), values, 1, Len(values))
    IN  [output |-> at.output, rest |-> EncodeEnd(at)]

\* as EncodeRest, with the state not cleared
EncodeRestWithoutClear(enc, rest) ==
    IF ~Empty(rest)
    THEN [output |-> <<Translate(enc.alphabet, rest.last_encoded_value)>>
                     \o AppendTo(enc.padding, rest),
          rest |-> rest]
    ELSE [output |-> <<>>, rest |-> rest]

\* as EncodeRest, with the pads written before the last symbol
EncodeRestPadsFirst(enc, rest) ==
    IF ~Empty(rest)
    THEN [output |-> AppendTo(enc.padding, rest)
                     \o <<Translate(enc.alphabet, rest.last_encoded_value)>>,
          rest |-> Clear(rest)]
    ELSE [output |-> <<>>, rest |-> rest]

\* as EncodeRest, without the test for an empty state
EncodeRestUnguarded(enc, rest) ==
    [output |-> <<Translate(enc.alphabet, rest.last_encoded_value)>>
                \o AppendTo(enc.padding, rest),
     rest |-> Clear(rest)]

\* encoder::encode_rest(output, rest)
EncodeRest(enc, rest) ==
    IF ~Empty(rest)
    THEN [output |-> <<Translate(enc.alphabet, rest.last_encoded_value)>>
                     \o AppendTo(enc.padding, rest),
          rest |-> Clear(rest)]
    ELSE [output |-> <<>>, rest |-> rest]

\* encoder::encode(begin, end, output): the stateless one-shot encode
EncodeComplete(enc, values) ==
    LET first == Encode(enc, values, NewState)
    IN  first.output \o EncodeRest(enc, first.rest).output

\* ------------------------------------------------------- encoders in use

Alphabets == {"default_alphabet", "url_and_filename_safe_alphabet"}
Paddings == {"padding", "no_padding"}

\* encoder<Alphabet, Padding, MaxLineLength>
Encoder(alphabet, padding, max_line_length) ==
    [alphabet |-> alphabet, padding |-> padding,
     max_line_length |-> max_line_length]

normal == Encoder("default_alphabet", "padding", no_line_breaks)
url == Encoder("url_and_filename_safe_alphabet", "padding", no_line_breaks)
mime == Encoder("default_alphabet", "padding", max_mime_line_length)
pem == Encoder("default_alphabet", "padding", max_pem_line_length)

\* encoders whose lines a few octets fill: every alphabet and padding, with
\* no line breaks (normal, url, the custom encoder of no_padding_test) and
\* with a line of one quantum
ShortLineEncoders ==
    {Encoder(a, p, n) : a \in Alphabets, p \in Paddings, n \in {no_line_breaks, 4}}

\* encoders fed from the test buffer: the ones of line_breaks_test, and two
\* with short lines, one of them no multiple of four
LongLineEncoders ==
    {normal, mime, pem,
     Encoder("default_alphabet", "padding", 5),
     Encoder("url_and_filename_safe_alphabet", "no_padding", 8)}

\* ---------------------------------------------------------- state machine

VARIABLES
    enc,        \* the encoder the caller instantiated
    source,     \* where the input comes from: "octets" (any octets, short)
                \* or "buffer" (prefixes of the test buffer, long)
    rest,       \* the caller's state<Value>
    out,        \* the output sink since it was last emptied
    input,      \* the octets encoded into the sink since it was last emptied
    start,      \* the state when the sink was last emptied
    consumed,   \* octets consumed since construction, clear() or encode_rest
    pc,         \* "encoding", "finished" (encode_rest called), "cleared"
                \* (clear() called) or "oneshot" (stateless encode called)
    sessions,   \* two callers side by side, each with an encoder, a state
                \* and a sink of its own
    stream,     \* an output stream: the text written to it and the longs of
                \* its internal extensible array
    parts       \* what the caller of the stream did since it emptied the text

vars == <<enc, source, rest, out, input, start, consumed, pc,
          sessions, stream, parts>>

\* the variables of the caller that holds one state<Value> itself
single == <<enc, source, rest, out, input, start, consumed, pc>>

\* the variables of the callers side by side and of the stream
apart == <<sessions, stream, parts>>

\* input sequences of exactly n freely chosen octets
OctetSeqs(n) == [1..n -> Octets]

\* the chunks a caller can pass next: n more octets of its source
Chunks(n) ==
    IF source = "octets"
    THEN IF Len(input) + n <= MaxLen THEN OctetSeqs(n) ELSE {}
    ELSE IF Len(input) + n <= MaxBufferLen
         THEN {BufferSlice(Len(input), n)} ELSE {}

\* the complete inputs a caller can pass to the one-shot encode
Inputs ==
    IF source = "octets"
    THEN UNION {OctetSeqs(n) : n \in 0..MaxLen}
    ELSE {BufferSlice(0, n) : n \in 0..MaxBufferLen}

Values(chunk, value_type) ==
    [i \in 1..Len(chunk) |-> AsValue(chunk[i], value_type)]

\* a caller before its first call: state<Value> rest; and an empty sink
NewSession(encoder) ==
    [enc |-> encoder, rest |-> NewState, out |-> <<>>, input |-> <<>>,
     pc |-> "idle", at |-> EncodeBegin(NewState), pending |-> 0]

Sessions == {1, 2}

\* std::ostringstream output: no text, and iword() of a slot never written
\* is 0
NewStream == [text |-> <<>>, iword |-> [value_type \in ValueTypes |-> 0]]

\* the caller of the stream before its first part
NewParts(encoder) ==
    [enc |-> encoder, input |-> <<>>, types |-> {}, begun |-> NewStream.iword,
     count |-> 0, pc |-> "encoding", answer |-> TRUE]

Init ==
    /\ sessions = [i \in Sessions |-> NewSession(normal)]
    /\ stream = NewStream
    /\ parts = NewParts(normal)
    /\ source \in {"octets", "buffer"}
    /\ enc \in (IF source = "octets" THEN ShortLineEncoders ELSE LongLineEncoders)
    /\ rest = NewState
    /\ out = <<>>
    /\ input = <<>>
    /\ start = NewState
    /\ consumed = 0
    /\ pc = "encoding"

\* encode(chunk, std::back_inserter(result), state)
EncodeChunk ==
    /\ pc = "encoding"
    /\ \E n \in 0..MaxChunk, value_type \in ValueTypes :
         \E chunk \in Chunks(n) :
            LET r == Encode(enc, Values(chunk, value_type), rest)
            IN  /\ out' = out \o r.output
                /\ rest' = r.rest
                /\ input' = input \o chunk
                /\ consumed' = consumed + Len(chunk)
    /\ UNCHANGED <<enc, source, start, pc>>
    /\ UNCHANGED apart

\* encode_rest(std::back_inserter(result), state)
EncodeRestCall ==
    /\ pc # "oneshot"
    /\ LET r == EncodeRest(enc, rest)
       IN  /\ out' = out \o r.output
           /\ rest' = r.rest
    /\ consumed' = 0
    /\ pc' = IF pc = "encoding" THEN "finished" ELSE pc
    /\ UNCHANGED <<enc, source, input, start>>
    /\ UNCHANGED apart

\* state.clear()
ClearCall ==
    /\ pc # "oneshot"
    /\ rest' = Clear(rest)
    /\ consumed' = 0
    /\ pc' = IF pc = "encoding" THEN "cleared" ELSE pc
    /\ UNCHANGED <<enc, source, out, input, start>>
    /\ UNCHANGED apart

\* result = encode<Encoder, char>(input): the stateless encode, on a state
\* of its own, into an empty result; the caller looks at the result and
\* empties it before it goes on with its own state
EncodeOneShot ==
    /\ pc = "encoding"
    /\ input = <<>>
    /\ out = <<>>
    /\ \E whole \in Inputs, value_type \in ValueTypes :
         /\ out' = EncodeComplete(enc, Values(whole, value_type))
         /\ input' = whole
    /\ pc' = "oneshot"
    /\ UNCHANGED <<enc, source, rest, start, consumed>>
    /\ UNCHANGED apart

\* result.clear(): the caller empties the sink and goes on with the state
\* as it is
ResultClear ==
    /\ pc # "encoding"
    /\ out' = <<>>
    /\ input' = <<>>
    /\ start' = rest
    /\ pc' = "encoding"
    /\ UNCHANGED <<enc, source, rest, consumed>>
    /\ UNCHANGED apart

Next ==
    \/ EncodeChunk
    \/ EncodeRestCall
    \/ ClearCall
    \/ EncodeOneShot
    \/ ResultClear

Spec == Init /\ [][Next]_vars

TypeOK ==
    /\ rest.triplet_index \in 0..2
    /\ rest.last_encoded_value \in 0..63
    /\ rest.line_length \in 0..(UShortModulus - 1)
    /\ pc \in {"encoding", "finished", "cleared", "oneshot"}

\* ---------------------------------------------- two callers side by side

MaxSessionLen == 5

MaxSessionChunk == 2

\* the encoders of the two callers
SessionEncoders ==
    {Encoder("default_alphabet", "padding", 4), Encoder("url_and_filename_safe_alphabet", "no_padding", no_line_breaks)}

\* where in the test buffer the input of a caller begins
SessionOffset(i) == 9 * (i - 1)

\* as StateOf, with the state of the first caller for both
StateOfFirst(all, i) == all[1].rest

\* State & rest: the state the caller i passes to its calls
StateOf(all, i) == all[i].rest

InitSessions ==
    /\ sessions \in [Sessions -> {NewSession(e) : e \in SessionEncoders}]
    /\ stream = NewStream
    /\ parts = NewParts(normal)
    /\ source = "buffer"
    /\ enc = normal
    /\ rest = NewState
    /\ out = <<>>
    /\ input = <<>>
    /\ start = NewState
    /\ consumed = 0
    /\ pc = "encoding"

\* caller i enters encode(begin, end, output, rest) with n octets: the
\* registers are loaded from its state
SessionEncode(i) ==
    /\ sessions[i].pc = "idle"
    /\ \E n \in 0..MaxSessionChunk :
         /\ Len(sessions[i].input) + n <= MaxSessionLen
         /\ sessions' = [sessions EXCEPT
                ![i].pc = "running",
                ![i].at = EncodeBegin(StateOf(sessions, i)),
                ![i].pending = n]
    /\ UNCHANGED <<single, stream, parts>>

\* caller i goes once around the loop of encode: one octet is read and its
\* symbols are written to the sink of i
SessionStep(i) ==
    /\ sessions[i].pc = "running"
    /\ sessions[i].pending > 0
    /\ LET s == sessions[i]
           octet == BufferOctet(SessionOffset(i) + Len(s.input) + 1)
           r == EncodeStep(s.enc, [s.at EXCEPT !.output = <<>>],
                           AsValue(octet, "char"))
       IN  sessions' = [sessions EXCEPT
                ![i].at = [r EXCEPT !.output = <<>>],
                ![i].out = s.out \o r.output,
                ![i].input = Append(s.input, octet),
                ![i].pending = s.pending - 1]
    /\ UNCHANGED <<single, stream, parts>>

\* as SessionReturn, with begin == end tested in case 0 only
SessionReturnAtQuantum(i) ==
    /\ sessions[i].pc = "running"
    /\ sessions[i].pending = 0
    /\ sessions[i].at.label = 0
    /\ sessions' = [sessions EXCEPT
           ![i].rest = EncodeEnd(sessions[i].at),
           ![i].pc = "idle"]
    /\ UNCHANGED <<single, stream, parts>>

\* caller i finds begin == end: the registers are stored to its state and
\* encode returns
SessionReturn(i) ==
    /\ sessions[i].pc = "running"
    /\ sessions[i].pending = 0
    /\ sessions' = [sessions EXCEPT
           ![i].rest = EncodeEnd(sessions[i].at),
           ![i].pc = "idle"]
    /\ UNCHANGED <<single, stream, parts>>

\* caller i calls encode_rest(output, rest)
SessionEncodeRest(i) ==
    /\ sessions[i].pc = "idle"
    /\ LET r == EncodeRest(sessions[i].enc, StateOf(sessions, i))
       IN  sessions' = [sessions EXCEPT
                ![i].out = sessions[i].out \o r.output,
                ![i].rest = r.rest,
                ![i].pc = "finished"]
    /\ UNCHANGED <<single, stream, parts>>

NextSessions ==
    \/ \E i \in Sessions : SessionEncode(i)
    \/ \E i \in Sessions : SessionStep(i)
    \/ \E i \in Sessions : SessionReturn(i)
    \/ \E i \in Sessions : SessionEncodeRest(i)

SpecSessions == InitSessions /\ [][NextSessions]_vars

\* a caller inside encode goes on: the loop is run by the thread that called
\* it, and nothing in it waits
SpecSessionsFair ==
    /\ SpecSessions
    /\ \A i \in Sessions :
          WF_vars(SessionStep(i)) /\ WF_vars(SessionReturn(i))

\* ------------------------------------------------------- an output stream

MaxPart == 2

LongPart == 57

MaxParts == 3

\* sizeof(super_t::triplet_index) * 8
triplet_index_size == 8

\* the encoders of base64::io
IoPresets == {normal, url, mime, pem}

\* the sizes of the parts a caller writes: short ones, and one of a whole
\* line of mime
PartSizes == (0..MaxPart) \cup {LongPart}

\* detail::state::state(output): super_t() zeroes the three fields, then
\* triplet_index and last_encoded_value are taken from the long of the
\* stream; line_length stays 0
Load(data, value_type) ==
    [triplet_index |-> BitAnd(data, ShiftLeft(1, triplet_index_size) - 1),
     last_encoded_value |->
         AsValue(ShiftRight(data, triplet_index_size) % OctetModulus,
                 value_type),
     line_length |-> 0]

\* detail::state::~state(): last_encoded_value and triplet_index go to the
\* long of the stream; last_encoded_value is never negative here
Store(state) ==
    BitOr(ShiftLeft(state.last_encoded_value, triplet_index_size),
          state.triplet_index)

\* detail::state::storage(): the long of the stream that belongs to
\* state<Char, Value>; index is a static of the member function, one xalloc()
\* for each Value
Storage(output, value_type) == output.iword[value_type]

\* what the scope of a detail::state leaves in the stream: the text written
\* meanwhile and the state stored by the destructor
Scope(output, value_type, written, state) ==
    [text |-> output.text \o written,
     iword |-> [output.iword EXCEPT ![value_type] = Store(state)]]

InitIo ==
    /\ parts \in {NewParts(e) : e \in IoPresets}
    /\ stream = NewStream
    /\ sessions = [i \in Sessions |-> NewSession(normal)]
    /\ source = "buffer"
    /\ enc = normal
    /\ rest = NewState
    /\ out = <<>>
    /\ input = <<>>
    /\ start = NewState
    /\ consumed = 0
    /\ pc = "encoding"

\* output << io::encode<Encoder>(begin, end), over value_type
IoEncode ==
    /\ parts.pc = "encoding"
    /\ parts.count < MaxParts
    /\ \E n \in PartSizes, value_type \in ValueTypes :
         /\ Len(parts.input) + n <= MaxBufferLen
         /\ LET part == BufferSlice(Len(parts.input), n)
                r == Encode(parts.enc, Values(part, value_type),
                            Load(Storage(stream, value_type), value_type))
            IN  /\ stream' = Scope(stream, value_type, r.output, r.rest)
                /\ parts' = [parts EXCEPT
                       !.input = parts.input \o part,
                       !.types = parts.types \cup {value_type},
                       !.count = parts.count + 1]
    /\ UNCHANGED <<single, sessions>>

\* output << io::encode_rest<Encoder, Value>
IoEncodeRest ==
    /\ parts.pc = "encoding"
    /\ \E value_type \in ValueTypes :
         LET r == EncodeRest(parts.enc,
                             Load(Storage(stream, value_type), value_type))
         IN  /\ stream' = Scope(stream, value_type, r.output, r.rest)
             /\ parts' = [parts EXCEPT
                    !.types = parts.types \cup {value_type},
                    !.pc = "finished"]
    /\ UNCHANGED <<single, sessions>>

\* io::clear_state<Value>(output)
IoClearState ==
    /\ parts.pc = "encoding"
    /\ \E value_type \in ValueTypes :
         /\ stream' = Scope(stream, value_type, <<>>,
                            Clear(Load(Storage(stream, value_type), value_type)))
         /\ parts' = [parts EXCEPT
                !.types = parts.types \cup {value_type},
                !.pc = "cleared"]
    /\ UNCHANGED <<single, sessions>>

\* io::empty_state<Value>(output) with a detail::state that is constructed
\* by super_t() alone and does not read the long of the stream
IoEmptyStateUnloaded ==
    /\ \E value_type \in ValueTypes :
         /\ stream' = Scope(stream, value_type, <<>>, NewState)
         /\ parts' = [parts EXCEPT
                !.types = parts.types \cup {value_type},
                !.answer = Empty(NewState)]
    /\ UNCHANGED <<single, sessions>>

\* io::empty_state<Value>(output): the answer is kept by the caller
IoEmptyState ==
    /\ \E value_type \in ValueTypes :
         LET state == Load(Storage(stream, value_type), value_type)
         IN  /\ stream' = Scope(stream, value_type, <<>>, state)
             /\ parts' = [parts EXCEPT
                    !.types = parts.types \cup {value_type},
                    !.answer = Empty(state)]
    /\ UNCHANGED <<single, sessions>>

\* output.str(""): the text is emptied, the longs of the stream stay
IoStr ==
    /\ parts.pc # "encoding"
    /\ stream' = [stream EXCEPT !.text = <<>>]
    /\ parts' = [parts EXCEPT
           !.input = <<>>,
           !.types = {},
           !.begun = stream.iword,
           !.pc = "encoding"]
    /\ UNCHANGED <<single, sessions>>

NextIo ==
    \/ IoEncode
    \/ IoEncodeRest
    \/ IoClearState
    \/ IoEmptyState
    \/ IoStr

SpecIo == InitIo /\ [][NextIo]_vars

\* ------------------------------------------- long lines, near the top of
\* ------------------------------------------- unsigned short

MaxWrapLen == 9

WrapWindow == 3

\* encoders whose maximum line length is near the top of unsigned short
WideEncoders ==
    {Encoder("default_alphabet", "padding", N) : N \in {65532, 65533, 65535}}

\* the values of line_length that a session of such an encoder goes through
\* on its first line, one for each complete quantum: the multiples of 4
\* below the maximum, of which the last few are taken
LongLineLengths(N) ==
    {l \in {UShortModulus - 4 * k : k \in 1..(WrapWindow + 1)} : l < N}

\* a caller far into the first line: its state on a quantum boundary
InitLine ==
    /\ source = "buffer"
    /\ enc \in WideEncoders
    /\ rest \in {Set(0, 0, l) : l \in LongLineLengths(enc.max_line_length)}
    /\ start = rest
    /\ out = <<>>
    /\ input = <<>>
    /\ consumed = 0
    /\ pc = "encoding"
    /\ sessions = [i \in Sessions |-> NewSession(normal)]
    /\ stream = NewStream
    /\ parts = NewParts(normal)

\* encode(chunk, std::back_inserter(result), state), a few octets more
EncodeOnLongLine ==
    /\ pc = "encoding"
    /\ \E n \in 0..MaxChunk, value_type \in ValueTypes :
         /\ Len(input) + n <= MaxWrapLen
         /\ LET chunk == BufferSlice(Len(input), n)
                r == Encode(enc, Values(chunk, value_type), rest)
            IN  /\ out' = out \o r.output
                /\ rest' = r.rest
                /\ input' = input \o chunk
                /\ consumed' = consumed + Len(chunk)
    /\ UNCHANGED <<enc, source, start, pc>>
    /\ UNCHANGED apart

NextLine ==
    \/ EncodeOnLongLine
    \/ EncodeRestCall

SpecLine == InitLine /\ [][NextLine]_vars

\* ------------------------------------------------------ reading the output

\* the positions (from 1) of a symbol in a sequence of symbols
Positions(symbols, symbol) == {i \in DOMAIN symbols : symbols[i] = symbol}

BreakPositions(symbols) == Positions(symbols, "\n")

Maximum(S) == CHOOSE m \in S : \A x \in S : x <= m

\* the number of '=' that end a sequence of symbols
TrailingPads(symbols) ==
    Len(symbols) - Maximum({0} \cup {i \in DOMAIN symbols : symbols[i] # "="})

\* a sequence of symbols without the '=' that end it
StripPads(symbols) == SubSeq(symbols, 1, Len(symbols) - TrailingPads(symbols))

\* the same octets, as both a chunk list and a one-shot input hold them
SameOctets(a, b) == Len(a) = Len(b) /\ \A i \in 1..Len(a) : a[i] = b[i]

\* A reference RFC 4648 decoder of padded text in the standard alphabet:
\* every four symbols give three octets, the last four give one octet when
\* they end with "==" and two when they end with "=".
SextetOf(symbol) == CHOOSE v \in 0..63 : default_characters[v + 1] = symbol

DecodedLen(symbols) == 3 * (Len(symbols) \div 4) - TrailingPads(symbols)

DecodedOctet(symbols, k) ==
    LET base == 4 * ((k - 1) \div 3)
        place == (k - 1) % 3
        v(j) == SextetOf(symbols[base + j])
    IN  CASE place = 0 -> v(1) * 4 + v(2) \div 16
          [] place = 1 -> (v(2) % 16) * 16 + v(3) \div 4
          [] OTHER -> (v(3) % 4) * 64 + v(4)

Decode(symbols) == [k \in 1..DecodedLen(symbols) |-> DecodedOctet(symbols, k)]

\* ------------------------------------------------------------------ claims

\* C1: chunk-invariance.  A session that started on a fresh state, fed its
\* input to encode in any chunks and called encode_rest has written what
\* the stateless one-shot encode writes for the whole input.
C1_ChunkInvariance ==
    (pc = "finished" /\ start = NewState)
        => out = EncodeComplete(enc, input)

\* a finished session of more octets than one chunk holds, ending inside a
\* quantum
C1_Witness ==
    /\ pc = "finished"
    /\ start = NewState
    /\ Len(input) > MaxChunk
    /\ Len(input) % 3 = 1
    /\ "=" \in {out[i] : i \in DOMAIN out}

\* C2: the state left by the encode calls over the chunks is the state one
\* encode call over the whole input leaves, from the same starting state.
C2_StateInvariance ==
    pc = "encoding" => rest = Encode(enc, input, start).rest

\* chunks that stopped inside a quantum with bits carried, on a line that a
\* quantum was counted on
C2_Witness ==
    /\ pc = "encoding"
    /\ Len(input) > MaxChunk
    /\ rest.triplet_index = 2
    /\ rest.last_encoded_value # 0
    /\ rest.line_length # 0

\* C3: round trip.  The reference decoder gives back the input of every
\* one-shot encode of the normal encoder.
C3_RoundTrip ==
    (pc = "oneshot" /\ enc = normal)
        => /\ Len(out) % 4 = 0
           /\ SameOctets(Decode(out), input)

\* one-shot encodes of the normal encoder that end with two pads, that use
\* the last two characters of the alphabet, and of the whole test buffer
C3_Witness ==
    /\ pc = "oneshot"
    /\ enc = normal
    /\ \/ Len(input) = 4 /\ out[1] = "+" /\ out[2] = "/"
       \/ Len(input) = MaxBufferLen

\* C4: padding boundary.  The one-shot output of a padded encoder ends with
\* two '=' for n mod 3 = 1, one for n mod 3 = 2, none for n mod 3 = 0, holds
\* no other '=', and is empty for n = 0.
C4_PaddingBoundary ==
    (pc = "oneshot" /\ enc.padding = "padding")
        => /\ TrailingPads(out) =
                  (CASE Len(input) % 3 = 1 -> 2
                     [] Len(input) % 3 = 2 -> 1
                     [] OTHER -> 0)
           /\ Cardinality(Positions(out, "=")) = TrailingPads(out)
           /\ (Len(input) = 0 => out = <<>>)

\* "aa" gives "YWE=" (padding_test)
C4_Witness ==
    /\ pc = "oneshot"
    /\ enc = normal
    /\ input = <<97, 97>>
    /\ out = <<"Y", "W", "E", "=">>

\* C5: no padding.  An encoder with no_padding never writes '=', and its
\* one-shot output is that of the padded encoder without the trailing '='.
C5_NoPadding ==
    enc.padding = "no_padding"
        => /\ Positions(out, "=") = {}
           /\ pc = "oneshot"
                => out = StripPads(
                       EncodeComplete([enc EXCEPT !.padding = "padding"], input))

\* "a" gives "YQ" (no_padding_test)
C5_Witness ==
    /\ pc = "oneshot"
    /\ enc = Encoder("default_alphabet", "no_padding", no_line_breaks)
    /\ input = <<97>>
    /\ out = <<"Y", "Q">>

\* a sequence of symbols with '+' turned into '-' and '/' into '_'
UrlSafe(symbols) ==
    [i \in DOMAIN symbols |->
        CASE symbols[i] = "+" -> "-"
          [] symbols[i] = "/" -> "_"
          [] OTHER -> symbols[i]]

\* C6: alphabet selection.  The two alphabets agree on 0..61 and differ at
\* 62 ('+' and '-') and 63 ('/' and '_'); the one-shot output of an encoder
\* with the url alphabet is that of the same encoder with the default
\* alphabet, '+' replaced by '-' and '/' by '_'.
C6_AlphabetSelection ==
    /\ \A v \in 0..61 : DefaultTranslate(v) = UrlTranslate(v)
    /\ DefaultTranslate(62) = "+" /\ UrlTranslate(62) = "-"
    /\ DefaultTranslate(63) = "/" /\ UrlTranslate(63) = "_"
    /\ (pc = "oneshot" /\ enc.alphabet = "url_and_filename_safe_alphabet")
          => SameOctets(out,
                 UrlSafe(EncodeComplete(
                     [enc EXCEPT !.alphabet = "default_alphabet"], input)))

\* 0xfb 0xf0 gives "-_A=" with the url encoder (alphabet_test)
C6_Witness ==
    /\ pc = "oneshot"
    /\ enc = url
    /\ input = <<251, 240>>
    /\ out = <<"-", "_", "A", "=">>

\* C7: line-break placement.  The one-shot output of mime (N = 76) and pem
\* (N = 64) for n octets holds floor(4 * floor(n / 3) / N) line breaks, the
\* k-th at index k * (N + 1) - 1 counted from 0, which is position
\* k * (N + 1) counted from 1; without line breaks configured it holds none.
C7_LineBreakPlacement ==
    pc = "oneshot"
        => /\ enc \in {mime, pem}
                => BreakPositions(out) =
                       {k * (enc.max_line_length + 1) :
                           k \in 1..((4 * (Len(input) \div 3))
                                         \div enc.max_line_length)}
           /\ enc.max_line_length = no_line_breaks
                => BreakPositions(out) = {}

\* the 100 octets of line_breaks_test with pem: breaks at 64 and 129
C7_Witness ==
    /\ pc = "oneshot"
    /\ enc = pem
    /\ Len(input) = 100
    /\ BreakPositions(out) = {65, 130}

\* the symbols other than line breaks before position i
SymbolsBefore(symbols, i) ==
    (i - 1) - Cardinality({j \in BreakPositions(symbols) : j < i})

\* C8: a line break never splits a quantum.  In the output of every session,
\* chunked or one-shot, finished or not, the number of symbols other than
\* line breaks before each line break is a multiple of 4; and a line break
\* does not count for the line length: when encode has just written one,
\* line_length is 0.
C8_BreakBetweenQuanta ==
    /\ \A i \in BreakPositions(out) : SymbolsBefore(out, i) % 4 = 0
    /\ (pc = "encoding" /\ out # <<>> /\ out[Len(out)] = "\n")
          => rest.line_length = 0

\* a chunked session whose last quantum encode and encode_rest wrote
\* together, after a line break
C8_Witness ==
    /\ pc = "finished"
    /\ Len(input) > MaxChunk
    /\ Len(input) % 3 = 2
    /\ BreakPositions(out) # {}
    /\ out[Len(out)] = "="

\* no line of the symbols (between two line breaks, before the first, after
\* the last) is longer than limit
NoLineLongerThan(symbols, limit) ==
    \A i \in BreakPositions(symbols) \cup {Len(symbols) + 1} :
        LET previous == Maximum({0} \cup {j \in BreakPositions(symbols) : j < i})
        IN  i - 1 - previous <= limit

\* MaxLineLength rounded up to a multiple of 4
NextMultipleOfFour(n) == 4 * ((n + 3) \div 4)

C10_StateEmptiness ==
    /\ Empty(NewState)
    /\ rest.triplet_index = consumed % 3
    /\ Empty(rest) <=> (consumed % 3 = 0)

\* a second session on the same state, stopped inside its second quantum
C10_Witness ==
    /\ pc = "encoding"
    /\ start # NewState
    /\ consumed = 5
    /\ ~Empty(rest)

\* C11: after encode_rest returns the state is empty, whatever it held.
C11_EmptyAfterRest ==
    [][EncodeRestCall => Empty(rest')]_vars

\* encode_rest has finished a session that stopped inside a quantum, on a
\* line with symbols counted
C11_Witness ==
    /\ pc = "finished"
    /\ Len(input) % 3 # 0
    /\ start.line_length # 0
    /\ Empty(rest)

\* C12: after encode_rest returns the state equals a new one: triplet_index,
\* last_encoded_value and line_length are 0.
C12_FreshAfterRest ==
    [][EncodeRestCall => rest' = NewState]_vars

\* C13: state reuse.  A session on a state that went through earlier
\* sessions, each ended by encode_rest, writes the one-shot encoding of its
\* own input.
C13_StateReuse ==
    pc = "finished" => out = EncodeComplete(enc, input)

PadsFor(padding, triplet_index) ==
    CASE padding = "no_padding" -> <<>>
      [] triplet_index = 1 -> <<"=", "=">>
      [] OTHER -> <<"=">>

\* C15: encode_rest on a non-empty state writes one alphabet symbol, the
\* translation of last_encoded_value, then the pads of the padding policy,
\* and no line break.
C15_RestOutput ==
    [][(EncodeRestCall /\ ~Empty(rest)) =>
          out' = out \o <<Translate(enc.alphabet, rest.last_encoded_value)>>
                     \o PadsFor(enc.padding, rest.triplet_index)]_vars

\* encode_rest has finished a quantum of two octets whose first three
\* symbols filled the line of an encoder with lines of four
C15_Witness ==
    /\ pc = "finished"
    /\ enc.max_line_length = 4
    /\ enc.padding = "padding"
    /\ Len(input) = 5
    /\ Len(out) = 9
    /\ out[5] = "\n"
    /\ out[9] = "="
    /\ out[8] # "="

\* C16: clear() on any state gives a new state, and a second clear() changes
\* nothing.
C16_IdempotentClear ==
    [][ClearCall => (rest' = NewState /\ Clear(rest') = rest')]_vars

\* clear() was called inside a quantum
C16_Witness ==
    /\ pc = "cleared"
    /\ Len(input) % 3 = 2
    /\ rest = NewState

\* C17: stop mid-quantum.  After n octets from a new state encode has
\* written 4 * floor(n / 3) + n mod 3 alphabet symbols, line breaks not
\* counted, and no pad.
C17_StopMidQuantum ==
    (pc = "encoding" /\ start = NewState)
        => /\ Len(out) - Cardinality(BreakPositions(out))
                  = 4 * (Len(input) \div 3) + (Len(input) % 3)
           /\ Positions(out, "=") = {}

\* encode stopped after the first octet of the second quantum
C17_Witness ==
    /\ pc = "encoding"
    /\ start = NewState
    /\ Len(input) = 4
    /\ rest.triplet_index = 1
    /\ rest.last_encoded_value # 0

\* C18: an encode call with an empty input writes nothing and leaves the
\* state as it is, from every reachable state.
C18_EmptyInput ==
    pc = "encoding" => Encode(enc, <<>>, rest) = [output |-> <<>>, rest |-> rest]

\* states from which the empty encode starts inside a quantum, and on a
\* quantum boundary of a line with symbols counted
C18_Witness ==
    /\ pc = "encoding"
    /\ \/ rest.triplet_index = 2 /\ rest.last_encoded_value # 0
       \/ rest.triplet_index = 0 /\ rest.line_length # 0 /\ input = <<>>

\* what the caller i has when it runs alone from a new state over the octets
\* it has passed so far
Alone(i) ==
    Encode(sessions[i].enc, Values(sessions[i].input, "char"), NewState)

\* C19: two callers with a state and a sink each.  However their encode and
\* encode_rest calls interleave, each has the output and the state it has
\* when it runs alone, and a step of one leaves the other as it was.
C19_IndependentSessions ==
    /\ [](\A i \in Sessions :
            /\ sessions[i].pc # "finished" => sessions[i].out = Alone(i).output
            /\ sessions[i].pc = "idle" => sessions[i].rest = Alone(i).rest
            /\ sessions[i].pc = "finished" =>
                  /\ sessions[i].out
                         = EncodeComplete(sessions[i].enc,
                                          Values(sessions[i].input, "char"))
                  /\ sessions[i].rest
                         = EncodeRest(sessions[i].enc, Alone(i).rest).rest)
    /\ [][\A i \in Sessions :
            sessions'[i] # sessions[i] =>
                \A j \in Sessions \ {i} : sessions'[j] = sessions[j]]_vars

\* both callers are inside their second encode call, each inside a quantum
C19_Witness ==
    \A i \in Sessions :
        /\ sessions[i].pc = "running"
        /\ sessions[i].pending > 0
        /\ sessions[i].at.label # 0
        /\ Len(sessions[i].input) > MaxSessionChunk

\* C20: stream chunk-invariance.  Parts of one element type written to a
\* stream whose long for that type is 0, with the io encode manipulators of
\* one preset, and finished with the io encode_rest manipulator, give the
\* one-shot encoding of the octets of all parts as the text of the stream.
C20_StreamChunkInvariance ==
    \A value_type \in ValueTypes :
        (/\ parts.pc = "finished"
         /\ parts.types = {value_type}
         /\ parts.begun[value_type] = 0)
            => stream.text
                   = EncodeComplete(parts.enc, Values(parts.input, value_type))

\* C21: stream state queries.  On a stream used with one element type,
\* empty_state returns false when the io encode manipulators have consumed a
\* number of octets that is not a multiple of 3 since the last encode_rest
\* or clear_state, and true on a stream never encoded to, after the io
\* encode_rest manipulator and after clear_state.
C21_StreamStateQueries ==
    [][\A value_type \in ValueTypes :
          (/\ IoEmptyState
           /\ parts'.types = {value_type}
           /\ parts.begun[value_type] = 0)
              => parts'.answer
                     = (parts.pc # "encoding" \/ Len(parts.input) % 3 = 0)]_vars

\* empty_state has answered false inside a quantum whose kept bits are 0
C21_Witness ==
    /\ parts.answer = FALSE
    /\ parts.pc = "encoding"
    /\ parts.types = {"char"}
    /\ parts.begun["char"] = 0
    /\ Len(parts.input) = 1
    /\ Storage(stream, "char") = 1

\* the quantum position and the bits kept, without the line length
OpenQuantum(state) ==
    [triplet_index |-> state.triplet_index,
     last_encoded_value |-> state.last_encoded_value]

\* C22: heterogeneous stream parts.  Parts of different element types
\* written to one stream are encoded as one continuous sequence: an
\* operation of any element type starts from the state that the parts
\* written so far have left.  (Stated for the quantum position and the bits
\* kept; the line length is the matter of C20.)
C22_HeterogeneousParts ==
    (/\ parts.pc = "encoding"
     /\ \A value_type \in ValueTypes : parts.begun[value_type] = 0)
        => \A value_type \in ValueTypes :
              OpenQuantum(Load(Storage(stream, value_type), value_type))
                  = OpenQuantum(Encode(parts.enc,
                                       Values(parts.input, value_type),
                                       NewState).rest)

\* the octets of an input in quanta, the last one counted when incomplete
QuantaOf(n) == (n + 2) \div 3

\* C23: output length.  The one-shot output of a padded encoder for n
\* octets has 4 * ceil(n / 3) symbols without line breaks, and with a
\* maximum line length N of 64 or 76 it has
\* 4 * ceil(n / 3) + floor(4 * floor(n / 3) / N) symbols.
C23_OutputLength ==
    (pc = "oneshot" /\ enc.padding = "padding")
        => LET n == Len(input)
               N == enc.max_line_length
           IN  /\ N = no_line_breaks => Len(out) = 4 * QuantaOf(n)
               /\ N \in {max_pem_line_length, max_mime_line_length}
                     => Len(out) = 4 * QuantaOf(n) + ((4 * (n \div 3)) \div N)

\* the 100 octets of the test buffer in pem: 136 symbols and two line breaks
C23_Witness ==
    /\ pc = "oneshot"
    /\ enc = pem
    /\ Len(input) = MaxBufferLen
    /\ Len(out) = 4 * QuantaOf(MaxBufferLen) + 2

\* a sequence of symbols begins another
Prefix(head, whole) ==
    /\ Len(head) <= Len(whole)
    /\ SubSeq(whole, 1, Len(head)) = head

\* the octets that follow the input consumed so far: none, or one complete
\* quantum or more (of the free octets, quanta of one octet repeated)
Extensions ==
    {<<>>} \cup
    (IF source = "octets"
     THEN {<<octet, octet, octet>> : octet \in Octets}
     ELSE {BufferSlice(Len(input), n) :
              n \in {m \in 3..MaxChunk : Len(input) + m <= MaxBufferLen}})

\* a step of encode, encode_rest or clear(): the caller goes on with the same
\* sink, or has just finished or cleared
CallOnState ==
    \/ pc' = pc
    \/ pc' \in {"finished", "cleared"}

\* C24: append-only output.  encode and encode_rest only append to the
\* sink; and what encode has written for the octets consumed so far, from a
\* new state, begins the one-shot encoding of these octets and of every
\* sequence that extends them by at least one complete quantum.
C24_AppendOnly ==
    /\ []((pc = "encoding" /\ start = NewState) =>
             \A more \in Extensions :
                 Prefix(out, EncodeComplete(enc, input \o more)))
    /\ [][CallOnState => Prefix(out, out')]_vars

\* encode stopped inside the quantum that follows a line break
C24_Witness ==
    /\ pc = "encoding"
    /\ start = NewState
    /\ enc.max_line_length = 4
    /\ rest.triplet_index = 1
    /\ Len(out) = 6
    /\ out[5] = "\n"
    /\ \E more \in Extensions :
          /\ Len(more) = 3
          /\ Len(EncodeComplete(enc, input \o more)) > 10

\* C25: in every state reached from a new state by encode, encode_rest and
\* clear calls, triplet_index = 0 implies last_encoded_value = 0.
C25_EmptyHasNoValue ==
    rest.triplet_index = 0 => rest.last_encoded_value = 0

\* encode has returned after a complete quantum whose last octet has low bits
C25_Witness ==
    /\ pc = "encoding"
    /\ Len(input) = 3
    /\ FourthSextet(input[3]) # 0
    /\ rest.triplet_index = 0
    /\ rest.last_encoded_value = 0

\* C26: in every state reached from a new state by encode, encode_rest and
\* clear calls, over arbitrary octets, last_encoded_value = 0 implies that
\* the state is empty (triplet_index = 0).
C26_ZeroValueAsStated ==
    rest.last_encoded_value = 0 => Empty(rest)

\* C26 as the code has it: last_encoded_value = 0 implies that the state is
\* empty or that the bits kept from the last octet consumed, its low two
\* bits when triplet_index = 1 and its low four bits when triplet_index = 2,
\* are all 0.
C26_ZeroValue ==
    rest.last_encoded_value = 0 =>
        \/ Empty(rest)
        \/ /\ input # <<>>
           /\ rest.triplet_index = 1 => input[Len(input)] % 4 = 0
           /\ rest.triplet_index = 2 => input[Len(input)] % 16 = 0

\* after the single octet 0xf0 the state is not empty and keeps no bit
C26_Witness ==
    /\ pc = "encoding"
    /\ input = <<240>>
    /\ rest.triplet_index = 1
    /\ rest.last_encoded_value = 0

\* the number of symbols after the last line break, or of all symbols when
\* there is no line break
CurrentLine(symbols) ==
    IF BreakPositions(symbols) = {} THEN Len(symbols)
    ELSE Len(symbols) - Maximum(BreakPositions(symbols))

LeftByNextPart(value_type) ==
    {Encode(parts.enc,
            Values(BufferSlice(Len(parts.input), n), value_type),
            Load(Storage(stream, value_type), value_type)).rest :
        n \in {m \in PartSizes : Len(parts.input) + m <= MaxBufferLen}}

\* C28: stream state serialization round trip.  The whole state that
\* detail::state writes to the long of the stream on destruction,
\* triplet_index, last_encoded_value and line_length, is the state that the
\* next detail::state constructed on the stream reads back, for every state
\* that encode calls leave under every preset.
C28_StateRoundTrip ==
    parts.pc = "encoding" =>
        \A value_type \in ValueTypes :
            \A left \in LeftByNextPart(value_type) :
                Load(Store(left), value_type) = left

\* C29: totality.  A stateful encode call, from every state and under every
\* encoder, returns after it has read each octet of its input once and in
\* order, and encode_rest writes at most three symbols; neither fails.
C29_Totality ==
    /\ \A i \in Sessions :
          (sessions[i].pc = "running") ~> (sessions[i].pc = "idle")
    /\ [][\A i \in Sessions :
            (sessions[i].pc = "running" /\ sessions'[i] # sessions[i]) =>
                \/ /\ sessions[i].pending > 0
                   /\ sessions'[i].pending = sessions[i].pending - 1
                   /\ sessions'[i].input
                          = Append(sessions[i].input,
                                   BufferOctet(SessionOffset(i)
                                               + Len(sessions[i].input) + 1))
                \/ /\ sessions[i].pending = 0
                   /\ sessions'[i].pc = "idle"
                   /\ sessions'[i].input = sessions[i].input]_vars
    /\ [](\A i \in Sessions :
            Len(EncodeRest(sessions[i].enc, sessions[i].rest).output) <= 3)

\* a caller is back from an encode call that ended inside a quantum, and its
\* encode_rest will write three symbols
C29_Witness ==
    \E i \in Sessions :
        /\ sessions[i].pc = "idle"
        /\ sessions[i].rest.triplet_index = 1
        /\ Len(sessions[i].input) = 4
        /\ Len(EncodeRest(sessions[i].enc, sessions[i].rest).output) = 3

\* the arguments of alphabet::translate when the loop of encode reads one
\* more value with the registers at
PassedToTranslate(at, current_value) ==
    CASE at.label = 0 -> {FirstSextet(current_value)}
      [] at.label = 1 -> {SecondSextet(at.encoded_value, current_value)}
      [] OTHER -> {ThirdSextet(at.encoded_value, current_value),
                   FourthSextet(current_value)}

\* octets at the ends of the ranges of char and unsigned char, with the
\* octets of the tests
EdgeOctets == Octets \cup {0, 127, 128, 255}

\* C30: alphabet index safety.  Every value that encode or encode_rest
\* passes to alphabet::translate is in 0..63, for every octet, also one with
\* the high bit set read as a signed char, and from every state reached from
\* a new state.
C30_AlphabetIndex ==
    pc = "encoding" =>
        /\ rest.last_encoded_value \in 0..63
        /\ \A octet \in EdgeOctets, value_type \in ValueTypes :
              PassedToTranslate(EncodeBegin(rest), AsValue(octet, value_type))
                  \subseteq 0..63

\* the octets 0xfb and 0xf0 have been encoded: the first symbol is the one
\* of index 62
C30_Witness ==
    /\ pc = "encoding"
    /\ input = <<251, 240>>
    /\ rest.triplet_index = 2
    /\ out[1] \in {"+", "-"}
    /\ rest.last_encoded_value = 0

\* C31: carry shape.  In every state left by an encode call, triplet_index
\* is 0, 1 or 2; triplet_index = 1 implies that last_encoded_value is
\* (b AND 3) * 16 for the last octet b consumed, and triplet_index = 2 that
\* it is (b AND 15) * 4.
C31_CarryShape ==
    pc = "encoding" =>
        /\ rest.triplet_index \in {0, 1, 2}
        /\ rest.triplet_index = 1 =>
              /\ input # <<>>
              /\ rest.last_encoded_value = (input[Len(input)] % 4) * 16
              /\ rest.last_encoded_value \in {0, 16, 32, 48}
        /\ rest.triplet_index = 2 =>
              /\ input # <<>>
              /\ rest.last_encoded_value = (input[Len(input)] % 16) * 4
              /\ rest.last_encoded_value % 4 = 0
              /\ rest.last_encoded_value <= 60

\* encode has stopped after 0xfb as the second octet of a quantum: its low
\* four bits, 11, are kept as 44
C31_Witness ==
    /\ pc = "encoding"
    /\ rest.triplet_index = 2
    /\ Len(input) = 5
    /\ input[5] = 251
    /\ rest.last_encoded_value = 44

\* the encoder with the alphabet and the padding of the caller's and without
\* line breaks
WithoutLineBreaks == Encoder(enc.alphabet, enc.padding, no_line_breaks)

\* C32: line-length register.  From a new state, after every encode call
\* with a maximum line length N > 0, line_length is a multiple of 4 below N;
\* and an encode call of an encoder without line breaks leaves line_length
\* as it is.
C32_LineLengthRegister ==
    pc = "encoding" =>
        /\ enc.max_line_length # no_line_breaks =>
              /\ rest.line_length % 4 = 0
              /\ rest.line_length < enc.max_line_length
        /\ \A n \in 0..MaxChunk :
              Encode(WithoutLineBreaks, BufferSlice(0, n), rest).rest.line_length
                  = rest.line_length

\* under mime 54 octets are encoded: 72 symbols are counted on the line
C32_Witness ==
    /\ pc = "encoding"
    /\ enc = mime
    /\ start = NewState
    /\ Len(input) = 54
    /\ rest.line_length = max_mime_line_length - 4

\* C33: pads are written by encode_rest only and end the output.  In the
\* output of a session at most two '=' occur, they are the last symbols,
\* and before encode_rest there is none.
C33_PadsAtTheEnd ==
    LET pads == Positions(out, "=")
    IN  /\ Cardinality(pads) <= 2
        /\ pads = (Len(out) - Cardinality(pads) + 1)..Len(out)
        /\ pc \in {"encoding", "cleared"} => pads = {}

\* a session of four octets with lines of four symbols is finished: a line
\* break, two symbols and two pads follow the first quantum
C33_Witness ==
    /\ pc = "finished"
    /\ enc.max_line_length = 4
    /\ Len(input) = 4
    /\ Len(out) = 9
    /\ out[5] = "\n"
    /\ Positions(out, "=") = {8, 9}

\* the number of symbols before the first line break, or of all symbols when
\* there is no line break
FirstLine(symbols) ==
    IF BreakPositions(symbols) = {} THEN Len(symbols)
    ELSE Maximum({i \in BreakPositions(symbols) :
                     \A j \in BreakPositions(symbols) : i <= j}) - 1

\* C34: line-length arithmetic.  For every maximum line length from 1 to
\* 65535 the increment of line_length by 4 does not wrap around, so that a
\* line break is written after MaxLineLength + 3 symbols on a line at the
\* latest: the symbols counted on the line when the caller's session began
\* and those written since, before the first line break, are no more.
C34_LineLengthArithmetic ==
    (enc.max_line_length # no_line_breaks /\ pc # "oneshot") =>
        start.line_length + FirstLine(out) <= enc.max_line_length + 3

\* C35: empty_state is read-only.  A call of empty_state on a stream writes
\* nothing to the text of the stream and leaves the triplet_index and the
\* last_encoded_value stored for every element type as they were, so that
\* the stream from which a following encode or encode_rest starts is the
\* stream before the call.
C35_EmptyStateReadOnly ==
    [][IoEmptyState =>
          /\ stream'.text = stream.text
          /\ \A value_type \in ValueTypes :
                OpenQuantum(Load(Storage(stream', value_type), value_type))
                    = OpenQuantum(Load(Storage(stream, value_type), value_type))
          /\ stream' = stream]_vars

\* empty_state has answered false on a stream that holds the symbols of 58
\* octets and, for char, the position 1 with the kept bits 16 of the octet '5'
C35_Witness ==
    /\ parts.answer = FALSE
    /\ parts.pc = "encoding"
    /\ parts.enc = normal
    /\ Len(parts.input) = LongPart + 1
    /\ Len(stream.text) = 77
    /\ Storage(stream, "char") = Store(Set(1, 16, 0))
    /\ Storage(stream, "char") = 4097

\* the octets that fill one line of N symbols, N a multiple of four
OctetsOfLine(N) == 3 * (N \div 4)

\* C36: line break at the end of data.  encode writes the line break right
\* after the quantum that fills the line, whether or not input follows: with
\* a maximum line length N that is a multiple of four, a session begun on a
\* fresh state whose input so far is a positive multiple of 3 * N / 4 octets
\* has an output of full lines that ends with a line break, and encode_rest
\* adds nothing to it.
C36_LineBreakAtTheEnd ==
    LET N == enc.max_line_length
    IN  (/\ pc \in {"encoding", "finished"}
         /\ start = NewState
         /\ N # no_line_breaks
         /\ N % 4 = 0
         /\ Len(input) > 0
         /\ Len(input) % OctetsOfLine(N) = 0)
            => /\ Len(out) = (N + 1) * (Len(input) \div OctetsOfLine(N))
               /\ out[Len(out)] = "\n"
               /\ BreakPositions(out)
                      = {(N + 1) * k : k \in 1..(Len(input) \div OctetsOfLine(N))}
               /\ EncodeRest(enc, rest).output = <<>>

\* a mime session of 57 octets is finished: 76 symbols and the line break,
\* with nothing after it
C36_Witness ==
    /\ pc = "finished"
    /\ enc = mime
    /\ start = NewState
    /\ Len(input) = 57
    /\ Len(out) = 77
    /\ out[77] = "\n"

====
